---- MODULE Spec2Model ----
(***************************************************************************)
(* Model of the Windows platform layer of azure-container-networking:      *)
(*   - the Mellanox PriorityVLANTag monitor loop and its two convergence   *)
(*     actions (src/unnamed/part_000),                                     *)
(*   - the one-shot setter SetSdnRemoteArpMacAddress,                      *)
(*   - the on-demand calls HasMellanoxAdapter and, from the earlier        *)
(*     version of the file (src/platform/os_windows.go),                   *)
(*     SetMellanoxRegKeyPriorityVLANTag.                                   *)
(* Text that crosses the command boundary is a sequence of characters      *)
(* (one-character strings; an identifier that is never parsed is kept as   *)
(* one word), so that trimming and integer parsing are computed.           *)
(***************************************************************************)
EXTENDS Integers, Sequences, FiniteSets, TLC

(***************************************************************************)
(* Program constants                                                       *)
(***************************************************************************)
desiredRegValueForVLANTag == 3

SDNRemoteArpMacAddress == <<"12-34-56-78-9a-bc">>

registryKeyPrefix == <<"HKLM:\\System\\CurrentControlSet\\Control\\Class\\">>

\* time.Second; a time.Duration is counted here in milliseconds
Second == 1000

defaultMellanoxMonitorInterval == 30 * Second

\* the desired value in the earlier version of the platform file
regvalueForVLANTag == 3

(***************************************************************************)
(* Bounds of the model                                                     *)
(***************************************************************************)
\* number of concurrent callers of SetSdnRemoteArpMacAddress
NumCallers == 2

\* the intervalSecs handed to the monitor loop range over -MaxIntervalSecs..MaxIntervalSecs
MaxIntervalSecs == 1

(***************************************************************************)
(* Text helpers: strings.TrimSpace, strconv.Atoi, fmt.Sprintf("%d")        *)
(***************************************************************************)
Digits == {"0", "1", "2", "3", "4", "5", "6", "7", "8", "9"}

DigitVal == ("0" :> 0) @@ ("1" :> 1) @@ ("2" :> 2) @@ ("3" :> 3) @@ ("4" :> 4)
            @@ ("5" :> 5) @@ ("6" :> 6) @@ ("7" :> 7) @@ ("8" :> 8) @@ ("9" :> 9)

DigitChar == <<"0", "1", "2", "3", "4", "5", "6", "7", "8", "9">>

IsSpace(c) == c \in {" ", "\t", "\n", "\r"}

RECURSIVE TrimLeft(_)
TrimLeft(s) == IF s # <<>> /\ IsSpace(Head(s)) THEN TrimLeft(Tail(s)) ELSE s

RECURSIVE TrimRight(_)
TrimRight(s) ==
    IF s # <<>> /\ IsSpace(s[Len(s)]) THEN TrimRight(SubSeq(s, 1, Len(s) - 1)) ELSE s

TrimSpace(s) == TrimRight(TrimLeft(s))

RECURSIVE DigitsValue(_, _)
DigitsValue(s, acc) ==
    IF s = <<>> THEN acc ELSE DigitsValue(Tail(s), 10 * acc + DigitVal[Head(s)])

\* a faulty variant: text that is no number is taken as 0
AtoiLenient(s) ==
    [err |-> FALSE,
     val |-> IF s # <<>> /\ \A i \in 1..Len(s) : s[i] \in Digits THEN DigitsValue(s, 0) ELSE 0]

\* strconv.Atoi: an optional sign, then one or more decimal digits.
Atoi(s) ==
    LET signed == s # <<>> /\ Head(s) \in {"+", "-"}
        body   == IF signed THEN Tail(s) ELSE s
    IN  IF body = <<>> \/ \E i \in 1..Len(body) : body[i] \notin Digits
        THEN [err |-> TRUE, val |-> 0]
        ELSE [err |-> FALSE,
              val |-> IF signed /\ Head(s) = "-" THEN 0 - DigitsValue(body, 0)
                      ELSE DigitsValue(body, 0)]

\* fmt.Sprintf("%d", n) for n >= 0
RECURSIVE FormatInt(_)
FormatInt(n) ==
    IF n < 10 THEN <<DigitChar[n + 1]>>
    ELSE Append(FormatInt(n \div 10), DigitChar[(n % 10) + 1])

(***************************************************************************)
(* The host behind the command boundary                                    *)
(***************************************************************************)
NoText == <<>>

\* marks a registry value that does not exist
Missing == <<"<missing>">>

AdapterNames == {NoText, <<"Ethernet", " ", "3">>}

DeviceIds == {NoText, <<"PCI\\VEN_15B3">>}

KeySuffixes == {NoText, <<"{4d36e972}\\0001">>}

\* what the PriorityVLANTag registry value can hold
TagValues == {<<"3">>, <<"1">>, <<"0", "3">>, <<"x">>, NoText, Missing}

\* what the SDNRemoteArpMacAddress registry value can hold
SdnValues == {SDNRemoteArpMacAddress, NoText, <<"aa-bb-cc-dd-ee-ff">>}

VARIABLES
    \* host state
    adapterName,    \* Name of the adapter whose description matches *Mellanox* ("" : none)
    hasAdvProp,     \* the adapter exposes the advanced property *PriorityVLANTag
    deviceId,       \* DeviceID of the matching PnP entity ("" : none)
    keySuffix,      \* DEVPKEY_Device_Driver of that device
    tagValue,       \* the PriorityVLANTag registry value of the driver
    \* monitor loop
    intervalSecs,   \* the parameter of MonitorAndSetMellanoxRegKeyPriorityVLANTag
    interval,       \* the period handed to time.NewTicker, 0 before the loop began
    mpc,            \* position of MonitorAndSetMellanoxRegKeyPriorityVLANTag
    tickPending,    \* a tick is buffered in ticker.C
    cancelled,      \* ctx.Done() is closed
    mName,          \* adapterName returned by getMellanoxAdapterName
    mNameErr,       \* err returned by getMellanoxAdapterName
    mV4Name,        \* adapterNameWithVLANTag
    mDeviceId,      \* deviceid
    mPath,          \* registryKeyFullPath
    mCur,           \* currentVLANTagValue
    mRead,          \* the current call has read and parsed currentVLANTagValue
    cmds,           \* commands issued in the current cycle, in order
    mResult,        \* what SetMellanoxPriorityVLANTag returned last
    envChanged,     \* the host changed since the current cycle started
    lastV4,         \* the last completed call of the direct-property action
    prevV4,         \* the completed call before it
    restartPending, \* the legacy action wrote the value and no restart has succeeded since
    \* the one-shot setter
    sdnRemoteArpMacAddressSet,  \* the process-wide flag
    hnsEnabled,     \* HNS is enabled on the host (its State key exists)
    sdnValue,       \* the SDNRemoteArpMacAddress registry value
    sdnPc,          \* position of each caller in SetSdnRemoteArpMacAddress
    sdnCmds,        \* commands issued by each caller's latest call, in order
    sdnResult,      \* what each caller's latest call returned
    sdnEntryApplied,    \* the latest call began after a successful apply, not reset since
    appliedSinceReset,  \* a call applied the value successfully and the flag was not reset since
    sdnRestartPending,  \* a set command succeeded and no HNS restart has succeeded since
    \* the on-demand calls
    hmaCall,        \* the last call of HasMellanoxAdapter: what it was answered and returned
    rpc,            \* position of the call of SetMellanoxRegKeyPriorityVLANTag
    rName,          \* adapatername
    rDeviceId,      \* deviceid
    rPath,          \* registryKeyFullPath
    rCmds,          \* commands issued by the latest call, in order
    rResult,        \* what the latest call returned
    rAlready        \* the value was the desired one when the latest call began, and
                    \* the host has not changed during the call

hostVars == <<adapterName, hasAdvProp, deviceId, keySuffix, tagValue>>

startVars == <<intervalSecs, interval>>

loopVars == <<mpc, tickPending, cancelled>>

callVars == <<mName, mNameErr, mV4Name, mDeviceId, mPath, mCur, mRead, cmds, mResult>>

histVars == <<envChanged, lastV4, prevV4, restartPending>>

monVars == <<startVars, loopVars, callVars, histVars>>

sdnVars == <<sdnRemoteArpMacAddressSet, hnsEnabled, sdnValue, sdnPc, sdnCmds, sdnResult,
             sdnEntryApplied, appliedSinceReset, sdnRestartPending>>

regKeyVars == <<rpc, rName, rDeviceId, rPath, rCmds, rResult, rAlready>>

odVars == <<hmaCall, regKeyVars>>

vars == <<hostVars, monVars, sdnVars, odVars>>

Callers == 1..NumCallers

NoCall == [name |-> NoText, writes |-> 0, writesOk |-> 0, result |-> "none"]

\* ExecutePowershellCommand on success: stdout, trimmed
PowershellOutput(text) == TrimSpace(text \o <<"\r", "\n">>)

Cmd(op, arg, val, ok) == [op |-> op, arg |-> arg, val |-> val, ok |-> ok]

Issued(op) == {i \in 1..Len(cmds) : cmds[i].op = op}

InitHost ==
    /\ adapterName \in AdapterNames
    /\ hasAdvProp \in BOOLEAN
    /\ deviceId \in DeviceIds
    /\ keySuffix \in KeySuffixes
    /\ tagValue \in TagValues

IntervalInputs == (0 - MaxIntervalSecs)..MaxIntervalSecs

InitMonitor ==
    /\ intervalSecs \in IntervalInputs
    /\ interval = 0
    /\ mpc = "start"
    /\ tickPending = FALSE
    /\ cancelled = FALSE
    /\ mName = NoText
    /\ mNameErr = FALSE
    /\ mV4Name = NoText
    /\ mDeviceId = NoText
    /\ mPath = NoText
    /\ mCur = 0
    /\ mRead = FALSE
    /\ cmds = <<>>
    /\ mResult = "none"
    /\ envChanged = FALSE
    /\ lastV4 = NoCall
    /\ prevV4 = NoCall
    /\ restartPending = FALSE

InitSdnHost ==
    /\ hnsEnabled \in BOOLEAN
    /\ sdnValue \in SdnValues

InitSdn ==
    /\ sdnRemoteArpMacAddressSet = FALSE
    /\ sdnPc = [p \in Callers |-> "idle"]
    /\ sdnCmds = [p \in Callers |-> <<>>]
    /\ sdnResult = [p \in Callers |-> "none"]
    /\ sdnEntryApplied = [p \in Callers |-> FALSE]
    /\ appliedSinceReset = FALSE
    /\ sdnRestartPending = FALSE

NoHma == [ok |-> FALSE, out |-> NoText, name |-> NoText, err |-> FALSE, has |-> "none"]

InitOnDemand ==
    /\ hmaCall = NoHma
    /\ rpc = "idle"
    /\ rName = NoText
    /\ rDeviceId = NoText
    /\ rPath = NoText
    /\ rCmds = <<>>
    /\ rResult = "none"
    /\ rAlready = FALSE

Init == InitHost /\ InitMonitor /\ InitSdnHost /\ InitSdn /\ InitOnDemand

(***************************************************************************)
(* External events                                                         *)
(***************************************************************************)
\* the ticker fires; ticker.C holds one tick, a tick that finds it full is dropped
Tick ==
    /\ mpc \notin {"start", "returned"}
    /\ ~tickPending
    /\ tickPending' = TRUE
    /\ UNCHANGED <<sdnVars, odVars, startVars, hostVars, mpc, cancelled, callVars, histVars>>

\* the context is cancelled
Cancel ==
    /\ ~cancelled
    /\ cancelled' = TRUE
    /\ UNCHANGED <<sdnVars, odVars, startVars, hostVars, mpc, tickPending, callVars, histVars>>

\* drift: a driver update, a device change or an operator changes the host
HostChange ==
    /\ \/ /\ adapterName' \in AdapterNames \ {adapterName}
          /\ UNCHANGED <<hasAdvProp, deviceId, keySuffix, tagValue>>
       \/ /\ hasAdvProp' = ~hasAdvProp
          /\ UNCHANGED <<adapterName, deviceId, keySuffix, tagValue>>
       \/ /\ deviceId' \in DeviceIds \ {deviceId}
          /\ UNCHANGED <<adapterName, hasAdvProp, keySuffix, tagValue>>
       \/ /\ keySuffix' \in KeySuffixes \ {keySuffix}
          /\ UNCHANGED <<adapterName, hasAdvProp, deviceId, tagValue>>
       \/ /\ tagValue' \in TagValues \ {tagValue}
          /\ UNCHANGED <<adapterName, hasAdvProp, deviceId, keySuffix>>
    /\ envChanged' = TRUE
    /\ lastV4' = NoCall
    /\ prevV4' = NoCall
    /\ rAlready' = (rAlready /\ rpc = "idle")
    /\ UNCHANGED <<sdnVars, startVars, loopVars, callVars, restartPending, hmaCall, rpc, rName, rDeviceId,
                   rPath, rCmds, rResult>>

(***************************************************************************)
(* What the host answers to each command when the command succeeds         *)
(***************************************************************************)
\* Get-NetAdapter | Where InterfaceDescription -like "*Mellanox*" | Name
HostAdapterList == adapterName

HostHasProperty(name) == hasAdvProp /\ name # NoText /\ name = adapterName

\* Get-NetAdapterAdvancedProperty | Where RegistryKeyword, Name | Name
HostAdvPropertyName(name) == IF HostHasProperty(name) THEN adapterName ELSE NoText

\* Get-NetAdapterAdvancedProperty | Where RegistryKeyword, Name | RegistryValue
HostAdvPropertyValue(name) ==
    IF HostHasProperty(name) /\ tagValue # Missing THEN tagValue ELSE NoText

\* Get-CimInstance Win32_PNPEntity | Where Name -like "*Mellanox*" | DeviceID
HostDeviceId == deviceId

\* Get-PnpDeviceProperty -InstanceId id | DEVPKEY_Device_Driver | Data
HostDriverKey(id) == IF id # NoText /\ id = deviceId THEN keySuffix ELSE NoText

\* the driver's registry key is the one at this path
HostKeyAt(path) == keySuffix # NoText /\ path = registryKeyPrefix \o keySuffix

\* Get-ItemProperty -Path path -Name *PriorityVLANTag | *PriorityVLANTag
HostItemProperty(path) ==
    IF HostKeyAt(path) /\ tagValue # Missing THEN tagValue ELSE NoText

(***************************************************************************)
(* MonitorAndSetMellanoxRegKeyPriorityVLANTag                              *)
(***************************************************************************)
\* a faulty variant: a zero intervalSecs is taken as an interval
MonitorIntervalFromZero(secs) ==
    IF secs >= 0 THEN secs * Second ELSE defaultMellanoxMonitorInterval

\* interval := defaultMellanoxMonitorInterval
\* if intervalSecs > 0 { interval = time.Duration(intervalSecs) * time.Second }
MonitorInterval(secs) ==
    IF secs > 0 THEN secs * Second ELSE defaultMellanoxMonitorInterval

\* the loop begins: the interval is computed and the ticker is created
StartMonitor ==
    /\ mpc = "start"
    /\ interval' = MonitorInterval(intervalSecs)
    /\ mpc' = "select"
    /\ UNCHANGED <<sdnVars, odVars, hostVars, intervalSecs, tickPending, cancelled, callVars,
                   histVars>>

\* a faulty variant: the done case leaves the select only, and the loop goes on
AfterDoneBreak == "select"

\* where the loop goes from the done case of the select: return
AfterDone == "returned"

\* select: case <-ctx.Done()
SelectDone ==
    /\ mpc = "select"
    /\ cancelled
    /\ mpc' = AfterDone
    /\ UNCHANGED <<sdnVars, odVars, startVars, hostVars, tickPending, cancelled, callVars, histVars>>

\* select: case <-ticker.C; a cycle starts
SelectTick ==
    /\ mpc = "select"
    /\ tickPending
    /\ tickPending' = FALSE
    /\ mpc' = "getName"
    /\ cmds' = <<>>
    /\ mName' = NoText
    /\ mNameErr' = FALSE
    /\ mV4Name' = NoText
    /\ mDeviceId' = NoText
    /\ mPath' = NoText
    /\ mCur' = 0
    /\ mRead' = FALSE
    /\ envChanged' = FALSE
    /\ UNCHANGED <<sdnVars, odVars, startVars, hostVars, cancelled, mResult, lastV4, prevV4,
                   restartPending>>

\* where the loop goes after getMellanoxAdapterName returned (name, err)
AfterAdapterLookup(name, err) == "classify"

\* a faulty variant: an empty name is returned as a success
AdapterNameMissingIgnored(name) == FALSE

\* if adapterName == "" { return "", fmt.Errorf("no network adapter found ...") }
AdapterNameMissing(name) == name = NoText

\* what getMellanoxAdapterName returns when its command answers out (ok: it succeeded)
AdapterLookup(ok, out) ==
    LET err == ~ok \/ AdapterNameMissing(out)
    IN  [name |-> IF err THEN NoText ELSE out, err |-> err]

\* getMellanoxAdapterName, called by the loop
getMellanoxAdapterName ==
    /\ mpc = "getName"
    /\ \E ok \in BOOLEAN :
         LET got == AdapterLookup(ok, PowershellOutput(HostAdapterList))
         IN  /\ cmds' = Append(cmds, Cmd("Get-NetAdapter", NoText, 0, ok))
             /\ mName' = got.name
             /\ mNameErr' = got.err
             /\ mpc' = AfterAdapterLookup(got.name, got.err)
    /\ UNCHANGED <<sdnVars, odVars, startVars, hostVars, tickPending, cancelled, mV4Name, mDeviceId, mPath, mCur,
                   mRead, mResult, histVars>>

\* a faulty variant: the loop returns when the cycle failed
AfterCycleStopOnError(res) == IF res = "err" THEN "returned" ELSE "select"

\* a faulty variant: the next cycle begins as soon as the call returned, without
\* going back to the select
AfterCycleNoWait(res) == "getName"

\* where the loop goes when SetMellanoxPriorityVLANTag returned
AfterCycle(res) == "select"

\* SetMellanoxPriorityVLANTag returns res to the loop
Return(res) ==
    /\ mResult' = res
    /\ mpc' = AfterCycle(res)

\* a faulty variant: the generation is remembered; after a cycle in which the legacy
\* action wrote, later cycles use the legacy action whatever the classifier answers
DispatchCachedLegacy(adapterNameWithVLANTag) ==
    IF adapterNameWithVLANTag # NoText /\ ~restartPending THEN "v4get" ELSE "v3device"

\* which convergence action the classifier's answer selects
Dispatch(adapterNameWithVLANTag) ==
    IF adapterNameWithVLANTag # NoText THEN "v4get" ELSE "v3device"

\* a faulty variant: the classifier's error is ignored
ClassifierErrorIgnored(ok) == FALSE

\* if err != nil { return ... } after the classifier query (ok: the command succeeded)
ClassifierFailed(ok) == ~ok

\* SetMellanoxPriorityVLANTag: the classifier query and the dispatch
SetMellanoxPriorityVLANTag ==
    /\ mpc = "classify"
    /\ \E ok \in BOOLEAN :
         LET out == PowershellOutput(HostAdvPropertyName(mName))
         IN  /\ cmds' = Append(cmds, Cmd("Get-NetAdapterAdvancedProperty.Name", mName, 0, ok))
             /\ IF ClassifierFailed(ok)
                THEN /\ Return("err")
                     /\ UNCHANGED mV4Name
                ELSE /\ mV4Name' = out
                     /\ mpc' = Dispatch(out)
                     /\ UNCHANGED mResult
    /\ UNCHANGED <<sdnVars, odVars, startVars, hostVars, tickPending, cancelled, mName, mNameErr, mDeviceId, mPath,
                   mCur, mRead, histVars>>

(***************************************************************************)
(* setMellanoxPriorityVLANTagValueForV4                                    *)
(***************************************************************************)
\* the record of a completed call of the direct-property action
V4Call(res, log) ==
    [name     |-> mV4Name,
     writes   |-> Cardinality({i \in 1..Len(log) : log[i].op = "Set-NetAdapterAdvancedProperty"}),
     writesOk |-> Cardinality({i \in 1..Len(log) :
                     log[i].op = "Set-NetAdapterAdvancedProperty" /\ log[i].ok}),
     result   |-> res]

ReturnV4(res, log) ==
    /\ Return(res)
    /\ prevV4' = IF envChanged THEN NoCall ELSE lastV4
    /\ lastV4' = IF envChanged THEN NoCall ELSE V4Call(res, log)
    /\ UNCHANGED <<envChanged, restartPending>>

\* a faulty variant: the write is never issued
V4NeedsWriteNever(currentVLANTagValue) == FALSE

\* a faulty variant: the comparison is dropped and the write is always issued
V4NeedsWriteAlways(currentVLANTagValue) == TRUE

\* if currentVLANTagValue == desiredRegValueForVLANTag { return nil }: TRUE when it goes on
V4NeedsWrite(currentVLANTagValue) == currentVLANTagValue # desiredRegValueForVLANTag

\* getMellanoxPriorityVLANTagValueForV4 and the comparison
V4GetValue ==
    /\ mpc = "v4get"
    /\ \E ok \in BOOLEAN :
         LET out == PowershellOutput(HostAdvPropertyValue(mV4Name))
             num == Atoi(out)
             log == Append(cmds, Cmd("Get-NetAdapterAdvancedProperty.RegistryValue",
                                     mV4Name, 0, ok))
         IN  /\ cmds' = log
             /\ IF ~ok \/ num.err
                THEN /\ ReturnV4("err", log)
                     /\ UNCHANGED <<mCur, mRead>>
                ELSE /\ mCur' = num.val
                     /\ mRead' = TRUE
                     /\ IF V4NeedsWrite(num.val)
                        THEN /\ mpc' = "v4set"
                             /\ UNCHANGED <<mResult, histVars>>
                        ELSE ReturnV4("nil", log)
    /\ UNCHANGED <<sdnVars, odVars, startVars, hostVars, tickPending, cancelled, mName, mNameErr, mV4Name, mDeviceId,
                   mPath>>

\* Set-NetAdapterAdvancedProperty -Name .. -RegistryValue 3
V4SetValue ==
    /\ mpc = "v4set"
    /\ \E ok \in BOOLEAN :
         LET log == Append(cmds, Cmd("Set-NetAdapterAdvancedProperty", mV4Name,
                                     desiredRegValueForVLANTag, ok))
         IN  /\ ok => HostHasProperty(mV4Name)
             /\ cmds' = log
             /\ tagValue' = IF ok THEN FormatInt(desiredRegValueForVLANTag) ELSE tagValue
             /\ ReturnV4(IF ok THEN "nil" ELSE "err", log)
    /\ UNCHANGED <<sdnVars, odVars, startVars, adapterName, hasAdvProp, deviceId, keySuffix, tickPending, cancelled,
                   mName, mNameErr, mV4Name, mDeviceId, mPath, mCur, mRead>>

(***************************************************************************)
(* setMellanoxPriorityVLANTagValueForV3                                    *)
(***************************************************************************)
\* a faulty variant: the comparison is dropped and the write is always issued
V3NeedsWriteAlways(currentVLANTagValue) == TRUE

\* if currentVLANTagValue == desiredRegValueForVLANTag { return nil }: TRUE when it goes on
V3NeedsWrite(currentVLANTagValue) == currentVLANTagValue # desiredRegValueForVLANTag

\* a faulty variant: an empty device ID is not detected
DeviceIdMissingIgnored(deviceid) == FALSE

\* if deviceid == "" { return errors.New("no network device found") }
DeviceIdMissing(deviceid) == deviceid = NoText

\* Get-CimInstance ... DeviceID
V3GetDeviceId ==
    /\ mpc = "v3device"
    /\ \E ok \in BOOLEAN :
         LET out == PowershellOutput(HostDeviceId)
         IN  /\ cmds' = Append(cmds, Cmd("Get-CimInstance", NoText, 0, ok))
             /\ IF ~ok \/ DeviceIdMissing(out)
                THEN /\ Return("err")
                     /\ UNCHANGED mDeviceId
                ELSE /\ mDeviceId' = out
                     /\ mpc' = "v3driver"
                     /\ UNCHANGED mResult
    /\ UNCHANGED <<sdnVars, odVars, startVars, hostVars, tickPending, cancelled, mName, mNameErr, mV4Name, mPath,
                   mCur, mRead, histVars>>

\* a faulty variant: the write follows the driver lookup, without the value query
V3AfterDriverKeySkippingQuery(ok) == IF ok THEN "v3write" ELSE "return err"

\* where the call goes after the driver lookup (ok: it succeeded)
V3AfterDriverKey(ok) == IF ok THEN "v3get" ELSE "return err"

\* Get-PnpDeviceProperty ... Data, and the assembly of registryKeyFullPath
V3GetDriverKey ==
    /\ mpc = "v3driver"
    /\ \E ok \in BOOLEAN :
         LET out == PowershellOutput(HostDriverKey(mDeviceId))
         IN  /\ cmds' = Append(cmds, Cmd("Get-PnpDeviceProperty", mDeviceId, 0, ok))
             /\ IF V3AfterDriverKey(ok) = "return err"
                THEN /\ Return("err")
                     /\ UNCHANGED mPath
                ELSE /\ mPath' = registryKeyPrefix \o out
                     /\ mpc' = V3AfterDriverKey(ok)
                     /\ UNCHANGED mResult
    /\ UNCHANGED <<sdnVars, odVars, startVars, hostVars, tickPending, cancelled, mName, mNameErr, mV4Name, mDeviceId,
                   mCur, mRead, histVars>>

\* getMellanoxPriorityVLANTagValueForV3 and the comparison
V3GetValue ==
    /\ mpc = "v3get"
    /\ \E ok \in BOOLEAN :
         LET out == PowershellOutput(HostItemProperty(mPath))
             num == Atoi(out)
         IN  /\ cmds' = Append(cmds, Cmd("Get-ItemProperty", mPath, 0, ok))
             /\ IF ~ok \/ num.err
                THEN /\ Return("err")
                     /\ UNCHANGED <<mCur, mRead>>
                ELSE /\ mCur' = num.val
                     /\ mRead' = TRUE
                     /\ IF V3NeedsWrite(num.val)
                        THEN /\ mpc' = "v3write"
                             /\ UNCHANGED mResult
                        ELSE Return("nil")
    /\ UNCHANGED <<sdnVars, odVars, startVars, hostVars, tickPending, cancelled, mName, mNameErr, mV4Name, mDeviceId,
                   mPath, histVars>>

\* a faulty variant: a failed write is logged and the restart follows
V3AfterWriteIgnoringError(ok) == "v3restart"

\* where the call goes after the write command (ok: it succeeded)
V3AfterWrite(ok) == IF ok THEN "v3restart" ELSE "return err"

\* New-ItemProperty -Path .. -Value 3 -PropertyType String -Force
V3WriteValue ==
    /\ mpc = "v3write"
    /\ \E ok \in BOOLEAN :
         /\ ok => HostKeyAt(mPath)
         /\ cmds' = Append(cmds, Cmd("New-ItemProperty", mPath, desiredRegValueForVLANTag, ok))
         /\ tagValue' = IF ok THEN FormatInt(desiredRegValueForVLANTag) ELSE tagValue
         /\ restartPending' = (restartPending \/ ok)
         /\ IF V3AfterWrite(ok) = "return err"
            THEN Return("err")
            ELSE /\ mpc' = V3AfterWrite(ok)
                 /\ UNCHANGED mResult
    /\ UNCHANGED <<sdnVars, odVars, startVars, adapterName, hasAdvProp, deviceId, keySuffix,
                   tickPending, cancelled, mName, mNameErr, mV4Name, mDeviceId, mPath, mCur,
                   mRead, envChanged, lastV4, prevV4>>

\* Restart-NetAdapter -Name adapterName
V3RestartAdapter ==
    /\ mpc = "v3restart"
    /\ \E ok \in BOOLEAN :
         /\ cmds' = Append(cmds, Cmd("Restart-NetAdapter", mName, 0, ok))
         /\ restartPending' = (restartPending /\ ~ok)
         /\ Return(IF ok THEN "nil" ELSE "err")
    /\ UNCHANGED <<sdnVars, odVars, startVars, hostVars, tickPending, cancelled, mName, mNameErr,
                   mV4Name, mDeviceId, mPath, mCur, mRead, envChanged, lastV4, prevV4>>

MonitorNext ==
    \/ StartMonitor
    \/ Tick
    \/ Cancel
    \/ HostChange
    \/ SelectDone
    \/ SelectTick
    \/ getMellanoxAdapterName
    \/ SetMellanoxPriorityVLANTag
    \/ V4GetValue
    \/ V4SetValue
    \/ V3GetDeviceId
    \/ V3GetDriverKey
    \/ V3GetValue
    \/ V3WriteValue
    \/ V3RestartAdapter

\* the monitor loop alone, on a host where nobody calls the one-shot setter
InitMonitorOnly ==
    /\ InitHost
    /\ InitMonitor
    /\ hnsEnabled = TRUE
    /\ sdnValue = NoText
    /\ InitSdn
    /\ InitOnDemand

SpecMonitor == InitMonitorOnly /\ [][MonitorNext]_vars

(***************************************************************************)
(* SetSdnRemoteArpMacAddress, called from NumCallers contexts              *)
(***************************************************************************)
\* (Get-ItemProperty -Path ...\hns\State -Name SDNRemoteArpMacAddress).SDNRemoteArpMacAddress
\* With HNS not enabled there is no State key: the command fails, or answers
\* "False" as the responder of TestSetSdnRemoteArpMacAddress_hnsNotEnabled does.
HostSdnValue == IF hnsEnabled THEN sdnValue ELSE <<"False">>

SdnIssue(p, op, ok) == sdnCmds' = [sdnCmds EXCEPT ![p] = Append(@, Cmd(op, NoText, 0, ok))]

SdnReturn(p, res) ==
    /\ sdnResult' = [sdnResult EXCEPT ![p] = res]
    /\ sdnPc' = [sdnPc EXCEPT ![p] = "idle"]

\* a faulty variant: the flag is not consulted
SkipsBodyNever(flag) == FALSE

\* if !sdnRemoteArpMacAddressSet { ... }: TRUE when the body is skipped
SkipsBody(flag) == flag

\* the call begins and reads the flag
SdnEnter(p) ==
    /\ sdnPc[p] = "idle"
    /\ sdnCmds' = [sdnCmds EXCEPT ![p] = <<>>]
    /\ sdnEntryApplied' = [sdnEntryApplied EXCEPT ![p] = appliedSinceReset]
    /\ IF SkipsBody(sdnRemoteArpMacAddressSet)
       THEN SdnReturn(p, "nil")
       ELSE /\ sdnPc' = [sdnPc EXCEPT ![p] = "get"]
            /\ sdnResult' = [sdnResult EXCEPT ![p] = "running"]
    /\ UNCHANGED <<hostVars, monVars, odVars, sdnRemoteArpMacAddressSet, hnsEnabled, sdnValue,
                   appliedSinceReset,
                   sdnRestartPending>>

\* a faulty variant: the flag is set as soon as a command succeeds
FlagSetEarly(flag, ok) == flag \/ ok

\* the flag after a command of the body: the body assigns the flag on no path that
\* returns an error and nowhere before its last command
FlagAfterCommand(flag, ok) == flag

\* a faulty variant: the value is set whatever the query answered
SdnNeedsSetAlways(result) == TRUE

\* if result != SDNRemoteArpMacAddress
SdnNeedsSet(result) == result # SDNRemoteArpMacAddress

\* ExecutePowershellCommand(GetSdnRemoteArpMacAddressCommand)
SdnGet(p) ==
    /\ sdnPc[p] = "get"
    /\ \E ok \in BOOLEAN :
         LET result == PowershellOutput(HostSdnValue)
         IN  /\ SdnIssue(p, "Get-ItemProperty", ok)
             /\ sdnRemoteArpMacAddressSet' = FlagAfterCommand(sdnRemoteArpMacAddressSet, ok)
             /\ IF ~ok
                THEN SdnReturn(p, "err")
                ELSE /\ sdnPc' = [sdnPc EXCEPT ![p] =
                                     IF SdnNeedsSet(result) THEN "set" ELSE "setFlag"]
                     /\ UNCHANGED sdnResult
    /\ UNCHANGED <<hostVars, monVars, odVars, hnsEnabled, sdnValue, sdnEntryApplied,
                   appliedSinceReset, sdnRestartPending>>

\* where the call goes after the set command (ok: it succeeded)
SdnAfterSet(ok) == IF ok THEN "restart" ELSE "return err"

\* ExecutePowershellCommand(SetSdnRemoteArpMacAddressCommand)
SdnSet(p) ==
    /\ sdnPc[p] = "set"
    /\ \E ok \in BOOLEAN :
         /\ SdnIssue(p, "Set-ItemProperty", ok)
         /\ sdnValue' = IF ok /\ hnsEnabled THEN SDNRemoteArpMacAddress ELSE sdnValue
         /\ sdnRestartPending' = (sdnRestartPending \/ ok)
         /\ sdnRemoteArpMacAddressSet' = FlagAfterCommand(sdnRemoteArpMacAddressSet, ok)
         /\ IF SdnAfterSet(ok) = "return err"
            THEN SdnReturn(p, "err")
            ELSE /\ sdnPc' = [sdnPc EXCEPT ![p] = SdnAfterSet(ok)]
                 /\ UNCHANGED sdnResult
    /\ UNCHANGED <<hostVars, monVars, odVars, hnsEnabled, sdnEntryApplied, appliedSinceReset>>

\* a faulty variant: a failed restart is logged and the call goes on
SdnAfterRestartIgnoringError(ok) == "setFlag"

\* where the call goes after the restart command (ok: it succeeded)
SdnAfterRestart(ok) == IF ok THEN "setFlag" ELSE "return err"

\* ExecutePowershellCommand(RestartHnsServiceCommand)
SdnRestartHns(p) ==
    /\ sdnPc[p] = "restart"
    /\ \E ok \in BOOLEAN :
         /\ SdnIssue(p, "Restart-Service", ok)
         /\ sdnRestartPending' = (sdnRestartPending /\ ~ok)
         /\ sdnRemoteArpMacAddressSet' = FlagAfterCommand(sdnRemoteArpMacAddressSet, ok)
         /\ IF SdnAfterRestart(ok) = "return err"
            THEN SdnReturn(p, "err")
            ELSE /\ sdnPc' = [sdnPc EXCEPT ![p] = SdnAfterRestart(ok)]
                 /\ UNCHANGED sdnResult
    /\ UNCHANGED <<hostVars, monVars, odVars, hnsEnabled, sdnValue, sdnEntryApplied,
                   appliedSinceReset>>

\* the call's commands include a set command that succeeded
SdnApplied(p) ==
    \E i \in 1..Len(sdnCmds[p]) : sdnCmds[p][i].op = "Set-ItemProperty" /\ sdnCmds[p][i].ok

\* the value the call stores in the flag before it returns nil
FlagOnSuccess == TRUE

\* sdnRemoteArpMacAddressSet = true; return nil
SdnSetFlag(p) ==
    /\ sdnPc[p] = "setFlag"
    /\ sdnRemoteArpMacAddressSet' = FlagOnSuccess
    /\ SdnReturn(p, "nil")
    /\ appliedSinceReset' = (appliedSinceReset \/ SdnApplied(p))
    /\ UNCHANGED <<hostVars, monVars, odVars, hnsEnabled, sdnValue, sdnCmds, sdnEntryApplied,
                   sdnRestartPending>>

\* the test harness resets the flag
ResetFlag ==
    /\ sdnRemoteArpMacAddressSet
    /\ sdnRemoteArpMacAddressSet' = FALSE
    /\ appliedSinceReset' = FALSE
    /\ UNCHANGED <<hostVars, monVars, odVars, hnsEnabled, sdnValue, sdnPc, sdnCmds, sdnResult,
                   sdnEntryApplied,
                   sdnRestartPending>>

\* somebody else changes the registry value
SdnHostChange ==
    /\ hnsEnabled
    /\ sdnValue' \in SdnValues \ {sdnValue}
    /\ UNCHANGED <<hostVars, monVars, odVars, sdnRemoteArpMacAddressSet, hnsEnabled, sdnPc, sdnCmds,
                   sdnResult, sdnEntryApplied, appliedSinceReset,
                   sdnRestartPending>>

SdnNext ==
    \/ \E p \in Callers : SdnEnter(p)
    \/ \E p \in Callers : SdnGet(p)
    \/ \E p \in Callers : SdnSet(p)
    \/ \E p \in Callers : SdnRestartHns(p)
    \/ \E p \in Callers : SdnSetFlag(p)
    \/ ResetFlag
    \/ SdnHostChange

\* one call at a time
SdnEnterAlone(p) ==
    /\ \A q \in Callers : sdnPc[q] = "idle"
    /\ SdnEnter(p)

SdnSeqNext ==
    \/ \E p \in Callers : SdnEnterAlone(p)
    \/ \E p \in Callers : SdnGet(p)
    \/ \E p \in Callers : SdnSet(p)
    \/ \E p \in Callers : SdnRestartHns(p)
    \/ \E p \in Callers : SdnSetFlag(p)
    \/ ResetFlag
    \/ SdnHostChange

\* the setter alone, on a host whose adapters nobody touches
InitSdnOnly ==
    /\ adapterName = NoText
    /\ hasAdvProp = FALSE
    /\ deviceId = NoText
    /\ keySuffix = NoText
    /\ tagValue = Missing
    /\ InitMonitor
    /\ InitSdnHost
    /\ InitSdn
    /\ InitOnDemand

\* concurrent callers of the setter
SpecSdn == InitSdnOnly /\ [][SdnNext]_vars

\* callers of the setter that never overlap
SpecSdnSeq == InitSdnOnly /\ [][SdnSeqNext]_vars

(***************************************************************************)
(* The monitor loop left to run: the adapter is present, every command     *)
(* succeeds, ticks keep arriving, the context is never cancelled and the   *)
(* host is changed by the loop alone                                       *)
(***************************************************************************)
\* the command issued by the step succeeded
CommandSucceeds == cmds'[Len(cmds')].ok

HealCycle ==
    \/ StartMonitor
    \/ SelectTick
    \/ getMellanoxAdapterName /\ CommandSucceeds
    \/ SetMellanoxPriorityVLANTag /\ CommandSucceeds
    \/ V4GetValue /\ CommandSucceeds
    \/ V4SetValue /\ CommandSucceeds
    \/ V3GetDeviceId /\ CommandSucceeds
    \/ V3GetDriverKey /\ CommandSucceeds
    \/ V3GetValue /\ CommandSucceeds
    \/ V3WriteValue /\ CommandSucceeds
    \/ V3RestartAdapter /\ CommandSucceeds

HealNext == Tick \/ HealCycle

\* a host with a Mellanox adapter, its device and its driver key
InitHeal ==
    /\ InitMonitorOnly
    /\ adapterName # NoText
    /\ deviceId # NoText
    /\ keySuffix # NoText

\* the ticker keeps firing and the goroutine of the loop keeps running
SpecHeal == InitHeal /\ [][HealNext]_vars /\ WF_vars(Tick) /\ WF_vars(HealCycle)

\* the same loop when the restart of the adapter may fail
RetryCycle == HealCycle \/ V3RestartAdapter

RetryNext == Tick \/ RetryCycle

\* the ticker keeps firing, the goroutine of the loop keeps running, and a restart
\* that is issued again and again eventually succeeds
SpecRetry ==
    /\ InitHeal
    /\ [][RetryNext]_vars
    /\ WF_vars(Tick)
    /\ WF_vars(RetryCycle)
    /\ SF_vars(V3RestartAdapter /\ CommandSucceeds)

\* a step of the loop's goroutine other than the done case, whatever the command
\* answers
LoopStep ==
    \/ StartMonitor
    \/ SelectTick
    \/ getMellanoxAdapterName
    \/ SetMellanoxPriorityVLANTag
    \/ V4GetValue
    \/ V4SetValue
    \/ V3GetDeviceId
    \/ V3GetDriverKey
    \/ V3GetValue
    \/ V3WriteValue
    \/ V3RestartAdapter

StopNext == Tick \/ Cancel \/ SelectDone \/ LoopStep

\* the ticker keeps firing, every command completes, and the select, which chooses
\* uniformly at random among its ready cases, does not pass over the done case forever
SpecStop ==
    /\ InitMonitorOnly
    /\ [][StopNext]_vars
    /\ WF_vars(Tick)
    /\ WF_vars(LoopStep)
    /\ SF_vars(SelectDone)

(***************************************************************************)
(* HasMellanoxAdapter                                                      *)
(***************************************************************************)
\* if err != nil { return false }; return true
HasAdapter(err) == ~err

\* one call of HasMellanoxAdapter: the lookup and the answer
HasMellanoxAdapter ==
    /\ \E ok \in BOOLEAN :
         LET out == PowershellOutput(HostAdapterList)
             got == AdapterLookup(ok, out)
         IN  hmaCall' = [ok |-> ok, out |-> out, name |-> got.name, err |-> got.err,
                         has |-> IF HasAdapter(got.err) THEN "true" ELSE "false"]
    /\ UNCHANGED <<hostVars, monVars, sdnVars, regKeyVars>>

HasAdapterNext ==
    \/ HasMellanoxAdapter
    \/ HostChange

\* callers of HasMellanoxAdapter on a host that drifts
SpecHasAdapter == InitMonitorOnly /\ [][HasAdapterNext]_vars

(***************************************************************************)
(* SetMellanoxRegKeyPriorityVLANTag, the on-demand reconciler of the       *)
(* earlier version of the platform file (src/platform/os_windows.go)       *)
(***************************************************************************)
RegKeyIssue(op, arg, val, ok) == rCmds' = Append(rCmds, Cmd(op, arg, val, ok))

RegKeyReturn(res) ==
    /\ rResult' = res
    /\ rpc' = "idle"

\* the call begins: Get-NetAdapter ... Name
SetMellanoxRegKeyPriorityVLANTag ==
    /\ rpc = "idle"
    /\ rAlready' = (tagValue = FormatInt(regvalueForVLANTag))
    /\ rDeviceId' = NoText
    /\ rPath' = NoText
    /\ \E ok \in BOOLEAN :
         LET out == PowershellOutput(HostAdapterList)
         IN  /\ rCmds' = <<Cmd("Get-NetAdapter", NoText, 0, ok)>>
             /\ IF ~ok \/ out = NoText
                THEN /\ RegKeyReturn("err")
                     /\ rName' = NoText
                ELSE /\ rName' = out
                     /\ rpc' = "classify"
                     /\ rResult' = "running"
    /\ UNCHANGED <<hostVars, monVars, sdnVars, hmaCall>>

\* Get-NetAdapterAdvancedProperty ... Name, and the branch on its answer
RegKeyClassify ==
    /\ rpc = "classify"
    /\ \E ok \in BOOLEAN :
         LET adapterNamewithVLANTag == PowershellOutput(HostAdvPropertyName(rName))
         IN  /\ RegKeyIssue("Get-NetAdapterAdvancedProperty.Name", rName, 0, ok)
             /\ IF ~ok
                THEN RegKeyReturn("err")
                ELSE /\ rpc' = IF adapterNamewithVLANTag # NoText THEN "v4set" ELSE "v3device"
                     /\ UNCHANGED rResult
    /\ UNCHANGED <<hostVars, monVars, sdnVars, hmaCall, rName, rDeviceId, rPath, rAlready>>

\* Set-NetAdapterAdvancedProperty -Name .. -RegistryValue 3
RegKeyV4Set ==
    /\ rpc = "v4set"
    /\ \E ok \in BOOLEAN :
         /\ ok => HostHasProperty(rName)
         /\ RegKeyIssue("Set-NetAdapterAdvancedProperty", rName, regvalueForVLANTag, ok)
         /\ tagValue' = IF ok THEN FormatInt(regvalueForVLANTag) ELSE tagValue
         /\ IF ~ok
            THEN RegKeyReturn("err")
            ELSE /\ rpc' = "v4check"
                 /\ UNCHANGED rResult
    /\ UNCHANGED <<adapterName, hasAdvProp, deviceId, keySuffix, monVars, sdnVars, hmaCall,
                   rName, rDeviceId, rPath, rAlready>>

\* if regvalue != fmt.Sprintf("%d", regvalueForVLANTag): TRUE when the check fails
RegKeyMismatch(regvalue) == regvalue # FormatInt(regvalueForVLANTag)

\* check if value is set or not: Get-NetAdapterAdvancedProperty ... RegistryValue
RegKeyV4Check ==
    /\ rpc = "v4check"
    /\ \E ok \in BOOLEAN :
         LET regvalue == PowershellOutput(HostAdvPropertyValue(rName))
         IN  /\ RegKeyIssue("Get-NetAdapterAdvancedProperty.RegistryValue", rName, 0, ok)
             /\ RegKeyReturn(IF ~ok \/ RegKeyMismatch(regvalue) THEN "err" ELSE "nil")
    /\ UNCHANGED <<hostVars, monVars, sdnVars, hmaCall, rName, rDeviceId, rPath, rAlready>>

\* Get-CimInstance ... DeviceID; an empty answer is logged and the call returns nil
RegKeyV3Device ==
    /\ rpc = "v3device"
    /\ \E ok \in BOOLEAN :
         LET out == PowershellOutput(HostDeviceId)
         IN  /\ RegKeyIssue("Get-CimInstance", NoText, 0, ok)
             /\ IF ~ok
                THEN /\ RegKeyReturn("err")
                     /\ UNCHANGED rDeviceId
                ELSE IF out = NoText
                THEN /\ RegKeyReturn("nil")
                     /\ UNCHANGED rDeviceId
                ELSE /\ rDeviceId' = out
                     /\ rpc' = "v3driver"
                     /\ UNCHANGED rResult
    /\ UNCHANGED <<hostVars, monVars, sdnVars, hmaCall, rName, rPath, rAlready>>

\* Get-PnpDeviceProperty ... Data, and the assembly of registryKeyFullPath
RegKeyV3Driver ==
    /\ rpc = "v3driver"
    /\ \E ok \in BOOLEAN :
         LET registryKeySuffix == PowershellOutput(HostDriverKey(rDeviceId))
         IN  /\ RegKeyIssue("Get-PnpDeviceProperty", rDeviceId, 0, ok)
             /\ IF ~ok
                THEN /\ RegKeyReturn("err")
                     /\ UNCHANGED rPath
                ELSE /\ rPath' = registryKeyPrefix \o registryKeySuffix
                     /\ rpc' = "v3write"
                     /\ UNCHANGED rResult
    /\ UNCHANGED <<hostVars, monVars, sdnVars, hmaCall, rName, rDeviceId, rAlready>>

\* New-ItemProperty -Path .. -Value 3 -PropertyType String -Force
RegKeyV3Write ==
    /\ rpc = "v3write"
    /\ \E ok \in BOOLEAN :
         /\ ok => HostKeyAt(rPath)
         /\ RegKeyIssue("New-ItemProperty", rPath, regvalueForVLANTag, ok)
         /\ tagValue' = IF ok THEN FormatInt(regvalueForVLANTag) ELSE tagValue
         /\ IF ~ok
            THEN RegKeyReturn("err")
            ELSE /\ rpc' = "v3restart"
                 /\ UNCHANGED rResult
    /\ UNCHANGED <<adapterName, hasAdvProp, deviceId, keySuffix, monVars, sdnVars, hmaCall,
                   rName, rDeviceId, rPath, rAlready>>

\* Restart-NetAdapter -Name adapatername
RegKeyV3Restart ==
    /\ rpc = "v3restart"
    /\ \E ok \in BOOLEAN :
         /\ RegKeyIssue("Restart-NetAdapter", rName, 0, ok)
         /\ IF ~ok
            THEN RegKeyReturn("err")
            ELSE /\ rpc' = "v3check"
                 /\ UNCHANGED rResult
    /\ UNCHANGED <<hostVars, monVars, sdnVars, hmaCall, rName, rDeviceId, rPath, rAlready>>

\* double check if value is set or not: Get-ItemProperty -Path ..
RegKeyV3Check ==
    /\ rpc = "v3check"
    /\ \E ok \in BOOLEAN :
         LET regvalue == PowershellOutput(HostItemProperty(rPath))
         IN  /\ RegKeyIssue("Get-ItemProperty", rPath, 0, ok)
             /\ RegKeyReturn(IF ~ok \/ RegKeyMismatch(regvalue) THEN "err" ELSE "nil")
    /\ UNCHANGED <<hostVars, monVars, sdnVars, hmaCall, rName, rDeviceId, rPath, rAlready>>

RegKeyNext ==
    \/ SetMellanoxRegKeyPriorityVLANTag
    \/ RegKeyClassify
    \/ RegKeyV4Set
    \/ RegKeyV4Check
    \/ RegKeyV3Device
    \/ RegKeyV3Driver
    \/ RegKeyV3Write
    \/ RegKeyV3Restart
    \/ RegKeyV3Check
    \/ HostChange

\* on-demand calls of the reconciler on a host that drifts
SpecRegKey == InitMonitorOnly /\ [][RegKeyNext]_vars

Next == MonitorNext \/ SdnNext \/ HasAdapterNext \/ RegKeyNext

Spec == Init /\ [][Next]_vars

(***************************************************************************)
(* Properties                                                              *)
(***************************************************************************)
CyclePcs == {"getName", "classify", "v4get", "v4set", "v3device", "v3driver", "v3get",
             "v3write", "v3restart"}

\* the adapter lookup of the current cycle answered, and the name was empty
EmptyLookup == Len(cmds) >= 1 /\ cmds[1].op = "Get-NetAdapter" /\ cmds[1].ok /\ mNameErr

\* C1: in a cycle whose adapter lookup yields an empty name, the lookup is the only
\* command issued: no classifier query, device lookup, value query, write or restart.
C1_NoCommandAfterEmptyLookup == EmptyLookup => Len(cmds) = 1

\* C2: once the context is cancelled, the loop starts no new cycle, also when a tick
\* is pending at the select.
C2_NoCycleAfterCancel == [][cancelled => ~(mpc = "select" /\ mpc' = "getName")]_vars

\* C3: in a call where the legacy action read a current value equal to the desired
\* one, neither New-ItemProperty nor Restart-NetAdapter is issued.
C3_NoFalseRestart ==
    (Issued("Get-ItemProperty") # {} /\ mRead /\ mCur = desiredRegValueForVLANTag)
        => (Issued("New-ItemProperty") = {} /\ Issued("Restart-NetAdapter") = {})

C3_Witness ==
    /\ Issued("Get-ItemProperty") # {}
    /\ mRead
    /\ mCur = desiredRegValueForVLANTag
    /\ mpc = "select"
    /\ mResult = "nil"

\* two calls of the direct-property action in succession, for the same adapter and
\* with no change of the host in between
TwoV4Calls == prevV4 # NoCall /\ lastV4 # NoCall /\ prevV4.name = lastV4.name

\* C4 as stated: two calls in succession issue at most one write command in total.
C4_AtMostOneWrite == TwoV4Calls => prevV4.writes + lastV4.writes <= 1

\* C4: two calls in succession issue at most one write command in total unless the
\* write command of the first call failed; at most one write succeeds, and a call
\* that follows a call that returned success issues no write.
C4_Idempotent ==
    TwoV4Calls =>
        /\ prevV4.writes + lastV4.writes <= 1 \/ (prevV4.writes = 1 /\ prevV4.writesOk = 0)
        /\ prevV4.writesOk + lastV4.writesOk <= 1
        /\ prevV4.result = "nil" => lastV4.writes = 0

C4_Witness ==
    /\ TwoV4Calls
    /\ prevV4.writesOk = 1
    /\ prevV4.result = "nil"
    /\ lastV4.writes = 0
    /\ lastV4.result = "nil"

\* the dispatcher has issued its classifier query in the current cycle
Dispatched == Len(cmds) >= 2 /\ cmds[2].op = "Get-NetAdapterAdvancedProperty.Name"

V4Ran == mpc \in {"v4get", "v4set"} \/ Issued("Get-NetAdapterAdvancedProperty.RegistryValue") # {}

V3Ran == mpc \in {"v3device", "v3driver", "v3get", "v3write", "v3restart"}
         \/ Issued("Get-CimInstance") # {}

\* C5 as stated: in every call of the dispatcher exactly one of the two convergence
\* actions executes.
C5_ExactlyOne == Dispatched => (V4Ran # V3Ran)

\* C5: in every call of the dispatcher at most one of the two convergence actions
\* executes; exactly one when the classifier query succeeded, none when it failed.
C5_AtMostOne ==
    /\ ~(V4Ran /\ V3Ran)
    /\ Dispatched => ((V4Ran \/ V3Ran) <=> cmds[2].ok)

C5_Witness ==
    /\ Dispatched
    /\ ~cmds[2].ok
    /\ mpc = "select"
    /\ mResult = "err"
    /\ ~V4Ran
    /\ ~V3Ran

\* C6: after a call that applied the value, and until the flag is reset, the flag is
\* true and every call that begins issues no command and returns success.
C6_OneShot ==
    /\ appliedSinceReset => sdnRemoteArpMacAddressSet
    /\ \A p \in Callers :
         sdnEntryApplied[p] => (sdnCmds[p] = <<>> /\ sdnResult[p] = "nil" /\ sdnPc[p] = "idle")

C6_Witness ==
    \E p \in Callers :
        /\ sdnEntryApplied[p]
        /\ sdnResult[p] = "nil"
        /\ sdnCmds[p] = <<>>
        /\ sdnRemoteArpMacAddressSet

SdnIssuedBy(p, op) == \E i \in 1..Len(sdnCmds[p]) : sdnCmds[p][i].op = op

\* the invocations in flight that have issued op
SdnInFlightWith(op) == {p \in Callers : sdnPc[p] # "idle" /\ SdnIssuedBy(p, op)}

\* C7: on a host with HNS enabled, of the invocations in flight at the same time at
\* most one issues the set command and at most one issues the HNS restart.
C7_CriticalSection ==
    hnsEnabled =>
        /\ Cardinality(SdnInFlightWith("Set-ItemProperty")) <= 1
        /\ Cardinality(SdnInFlightWith("Restart-Service")) <= 1

\* caller p's step issued a command that failed
SdnCommandFailed(p) ==
    /\ Len(sdnCmds'[p]) = Len(sdnCmds[p]) + 1
    /\ ~sdnCmds'[p][Len(sdnCmds'[p])].ok

\* C8: a failed query, set or restart command makes the call return the error at
\* once with the flag false, and a call that begins with the flag false starts from
\* the query.
C8_ErrorLeavesFlagFalse ==
    [][\A p \in Callers :
         /\ SdnCommandFailed(p) =>
               (sdnResult'[p] = "err" /\ sdnPc'[p] = "idle" /\ ~sdnRemoteArpMacAddressSet')
         /\ (sdnResult[p] = "running" /\ sdnResult'[p] = "err") => SdnCommandFailed(p)
         /\ (sdnPc[p] = "idle" /\ sdnPc'[p] # "idle") =>
               (sdnPc'[p] = "get" /\ sdnCmds'[p] = <<>>)]_vars

C8_Witness ==
    \E p \in Callers :
        /\ sdnResult[p] = "err"
        /\ Len(sdnCmds[p]) = 3
        /\ sdnCmds[p][2].ok
        /\ ~sdnCmds[p][3].ok
        /\ ~sdnRemoteArpMacAddressSet

\* C9: with HNS not enabled and the first command answered, the call issues nothing
\* else, returns no error and leaves the flag false.
C9_HnsNotEnabled ==
    \A p \in Callers :
        (~hnsEnabled /\ Len(sdnCmds[p]) >= 1 /\ sdnCmds[p][1].ok) =>
            /\ Len(sdnCmds[p]) = 1
            /\ sdnResult[p] # "err"
            /\ ~sdnRemoteArpMacAddressSet

\* C10: the loop returns only at the select, with the context cancelled; a cycle,
\* failed or not, ends back at the select.
C10_OnlyCancelStops ==
    [][/\ (mpc # "returned" /\ mpc' = "returned") => (mpc = "select" /\ cancelled)
       /\ (mpc \in CyclePcs /\ mpc' \notin CyclePcs) => mpc' = "select"]_vars

\* a cycle has begun after a cycle that failed
C10_Witness == mpc = "getName" /\ mResult = "err" /\ ~cancelled

\* the direct-property action of the current cycle read a value and returned
V4CallDone ==
    /\ Issued("Get-NetAdapterAdvancedProperty.RegistryValue") # {}
    /\ mRead
    /\ mpc \in {"select", "returned"}

V4Writes == Issued("Set-NetAdapterAdvancedProperty")

\* C11: the direct-property action writes exactly when the value it read differs from
\* the desired value: on an equal value it issues no write and returns success; on a
\* different value it issues exactly one write, carrying the desired value, and no
\* restart, and it returns success exactly when that write succeeds.
C11_WriteIffDifferent ==
    /\ mpc = "v4set" => (mRead /\ mCur # desiredRegValueForVLANTag /\ V4Writes = {})
    /\ V4CallDone =>
          IF mCur = desiredRegValueForVLANTag
          THEN V4Writes = {} /\ mResult = "nil"
          ELSE /\ Cardinality(V4Writes) = 1
               /\ \A i \in V4Writes :
                     /\ cmds[i].val = desiredRegValueForVLANTag
                     /\ cmds[i].arg = mV4Name
                     /\ i = Len(cmds)
                     /\ (mResult = "nil") <=> cmds[i].ok
               /\ Issued("Restart-NetAdapter") = {}
               /\ Issued("New-ItemProperty") = {}

C11_Witness ==
    /\ V4CallDone
    /\ mCur # desiredRegValueForVLANTag
    /\ Cardinality(V4Writes) = 1
    /\ cmds[Len(cmds)].ok
    /\ mResult = "nil"

\* caller p's step is the query, it succeeded and answered the desired value
SdnQueriedDesired(p) ==
    /\ sdnPc[p] = "get"
    /\ Len(sdnCmds'[p]) = 1
    /\ sdnCmds'[p][1].ok
    /\ PowershellOutput(HostSdnValue) = SDNRemoteArpMacAddress

\* C12: a call that found the flag false and whose query answers the desired value
\* issues neither the set command nor the HNS restart: its next step sets the flag
\* and returns success.
C12_AlreadySetNoOp ==
    [][\A p \in Callers :
         /\ SdnQueriedDesired(p) => (sdnPc'[p] = "setFlag" /\ sdnResult'[p] = "running")
         /\ (sdnPc[p] = "setFlag" /\ sdnPc'[p] # "setFlag") =>
               /\ sdnRemoteArpMacAddressSet'
               /\ sdnResult'[p] = "nil"
               /\ sdnPc'[p] = "idle"
               /\ sdnCmds'[p] = sdnCmds[p]]_vars

\* a call returned success after the query alone
C12_Witness ==
    \E p \in Callers :
        /\ sdnResult[p] = "nil"
        /\ sdnPc[p] = "idle"
        /\ Len(sdnCmds[p]) = 1
        /\ sdnCmds[p][1].op = "Get-ItemProperty"
        /\ sdnCmds[p][1].ok
        /\ sdnRemoteArpMacAddressSet

\* the step is the driver lookup of the legacy action, it succeeded and its output
\* is empty
EmptyDriverKey ==
    /\ mpc = "v3driver"
    /\ Len(cmds') = Len(cmds) + 1
    /\ cmds'[Len(cmds')].ok
    /\ PowershellOutput(HostDriverKey(mDeviceId)) = NoText

\* C13: in the legacy action an empty driver registry-key suffix ends the call with
\* an error: no path is assembled from the bare prefix and no value query follows.
C13_EmptySuffixAborts ==
    [][EmptyDriverKey => (mpc' = "select" /\ mResult' = "err" /\ mPath' = NoText)]_vars

\* the device lookup of the current cycle succeeded and its output was empty
EmptyDeviceId ==
    \E i \in Issued("Get-CimInstance") : cmds[i].ok /\ mDeviceId = NoText

\* C14: in the legacy action a device lookup that succeeds with empty output ends the
\* call with an error, and the lookup is the last command of the call.
C14_EmptyDeviceIdEnds ==
    EmptyDeviceId =>
        /\ cmds[Len(cmds)].op = "Get-CimInstance"
        /\ mpc \in {"select", "returned"}
        /\ mResult = "err"

C14_Witness == EmptyDeviceId /\ mpc = "select" /\ mName # NoText /\ cmds[2].ok

\* the commands of the current cycle issued by SetMellanoxPriorityVLANTag and the
\* action it dispatched to (the first command of a cycle is the loop's adapter lookup)
CallCmds == 2..Len(cmds)

\* C15: within one reconciliation call a command that returns an executor error is
\* the last command of the call, the call returns an error, and no command is issued
\* twice.
C15_FirstErrorEndsCall ==
    /\ \A i \in CallCmds :
          ~cmds[i].ok => (i = Len(cmds) /\ mpc \in {"select", "returned"} /\ mResult = "err")
    /\ \A i, j \in CallCmds : cmds[i].op = cmds[j].op => i = j

\* the write of the legacy action failed
C15_Witness ==
    /\ Len(cmds) = 6
    /\ cmds[6].op = "New-ItemProperty"
    /\ ~cmds[6].ok
    /\ \A i \in 1..5 : cmds[i].ok
    /\ mResult = "err"
    /\ mpc = "select"

\* C16: once the loop has begun, the interval of its ticker is intervalSecs seconds
\* when intervalSecs is positive and 30 seconds when intervalSecs is zero or negative.
C16_Interval ==
    mpc # "start" =>
        /\ intervalSecs > 0 => interval = intervalSecs * Second
        /\ intervalSecs <= 0 => interval = 30 * Second
        /\ interval > 0

\* a loop begun with a zero intervalSecs has run a cycle
C16_Witness == intervalSecs = 0 /\ interval = 30 * Second /\ mpc = "select" /\ mResult # "none"

\* C17: getMellanoxAdapterName returns an error when its command fails and when the
\* name is empty, and otherwise a non-empty name with no error; HasMellanoxAdapter
\* answers false exactly when that lookup returned an error.
C17_NoEmptyNameAsSuccess ==
    hmaCall # NoHma =>
        /\ hmaCall.err <=> (~hmaCall.ok \/ hmaCall.out = NoText)
        /\ hmaCall.err => hmaCall.name = NoText
        /\ ~hmaCall.err => (hmaCall.name # NoText /\ hmaCall.name = hmaCall.out)
        /\ (hmaCall.has = "false") <=> hmaCall.err
        /\ (hmaCall.has = "true") <=> ~hmaCall.err

\* the command succeeded and listed no adapter
C17_Witness == hmaCall.ok /\ hmaCall.out = NoText /\ hmaCall.err /\ hmaCall.has = "false"

RegKeyIssued(op) == {i \in 1..Len(rCmds) : rCmds[i].op = op}

RegKeyWrites == RegKeyIssued("Set-NetAdapterAdvancedProperty") \cup RegKeyIssued("New-ItemProperty")

RegKeyChecks ==
    RegKeyIssued("Get-NetAdapterAdvancedProperty.RegistryValue") \cup RegKeyIssued("Get-ItemProperty")

\* C18: a call of the on-demand reconciler that finds the value already equal to 3
\* issues no write command and no Restart-NetAdapter.
C18_NoWriteWhenAlreadySet ==
    rAlready => (RegKeyWrites = {} /\ RegKeyIssued("Restart-NetAdapter") = {})

\* C19: the on-demand reconciler returns success only after a write that succeeded
\* and a later re-query that succeeded; a call that wrote nothing and verified nothing
\* does not return success.
C19_SuccessIsVerified ==
    (rpc = "idle" /\ rResult = "nil") =>
        \E i \in RegKeyWrites : \E j \in RegKeyChecks :
            i < j /\ rCmds[i].ok /\ rCmds[j].ok

\* the value the driver holds is the desired one
Healed ==
    /\ tagValue # Missing
    /\ ~Atoi(PowershellOutput(tagValue)).err
    /\ Atoi(PowershellOutput(tagValue)).val = desiredRegValueForVLANTag

\* the value is an integer other than the desired one, or the registry property of a
\* legacy adapter is missing
Drifted ==
    \/ /\ tagValue # Missing
       /\ ~Atoi(PowershellOutput(tagValue)).err
       /\ Atoi(PowershellOutput(tagValue)).val # desiredRegValueForVLANTag
    \/ /\ tagValue = Missing
       /\ ~hasAdvProp

\* C20: with the adapter present, every command succeeding and ticks arriving without
\* cancellation, a drifted value is eventually the desired one again, for both
\* generations.
C20_DriftSelfHealed == Drifted ~> Healed

\* C21: in the legacy path, once the registry write succeeded, the adapter is
\* eventually restarted with success: a restart that failed is issued again by a
\* later cycle.
C21_RestartReissued == restartPending ~> ~restartPending

\* C22: whenever the flag is true and a set command has succeeded in this process,
\* an HNS restart has succeeded after the last such set command.
C22_FlagImpliesRestarted == sdnRemoteArpMacAddressSet => ~sdnRestartPending

\* the step is caller p's return with success
SdnReturnsNil(p) == sdnPc[p] # "idle" /\ sdnPc'[p] = "idle" /\ sdnResult'[p] = "nil"

\* the step is a step of a call of the setter
SdnCallStep == \E p \in Callers : sdnPc'[p] # sdnPc[p] \/ sdnCmds'[p] # sdnCmds[p]

\* C28: no step of a call of the setter changes the flag from true to false, and the
\* flag changes from false to true only in the step in which a call returns success.
C28_FlagMonotonic ==
    [][/\ (sdnRemoteArpMacAddressSet /\ SdnCallStep) => sdnRemoteArpMacAddressSet'
       /\ (~sdnRemoteArpMacAddressSet /\ sdnRemoteArpMacAddressSet') =>
             \E p \in Callers : SdnReturnsNil(p)]_vars

\* a call set the flag, and a call that overlapped it failed and left the flag true
C28_Witness ==
    \E p, q \in Callers :
        /\ sdnResult[p] = "err"
        /\ sdnPc[p] = "idle"
        /\ Len(sdnCmds[p]) >= 1
        /\ sdnResult[q] = "nil"
        /\ Len(sdnCmds[q]) >= 1
        /\ sdnRemoteArpMacAddressSet

\* the commands of the legacy action, in the order of the source
LegacyOrder == <<"Get-CimInstance", "Get-PnpDeviceProperty", "Get-ItemProperty",
                 "New-ItemProperty", "Restart-NetAdapter">>

LegacyOps == {LegacyOrder[k] : k \in 1..Len(LegacyOrder)}

\* C23: the commands of the legacy action in a call are a prefix of device lookup,
\* driver lookup, value query, write, restart, each issued once, and every command
\* but the last one issued has succeeded.
C23_LegacyOrder ==
    /\ \A i \in 1..Len(cmds) : cmds[i].op \in LegacyOps => i >= 3
    /\ \A i \in 3..Len(cmds) :
          cmds[3].op \in LegacyOps =>
              /\ i - 2 <= Len(LegacyOrder)
              /\ cmds[i].op = LegacyOrder[i - 2]
              /\ i < Len(cmds) => cmds[i].ok
    /\ \A i \in Issued("Restart-NetAdapter") :
          i >= 2 /\ cmds[i - 1].op = "New-ItemProperty" /\ cmds[i - 1].ok

\* a call of the legacy action issued all five commands
C23_Witness ==
    /\ Len(cmds) = 7
    /\ cmds[7].op = "Restart-NetAdapter"
    /\ cmds[7].ok
    /\ mResult = "nil"
    /\ mpc = "select"

\* text is a decimal integer: an optional sign and at least one digit
IsDecimalInteger(text) ==
    LET digits == IF text # <<>> /\ Head(text) \in {"+", "-"} THEN Tail(text) ELSE text
    IN  digits # <<>> /\ \A i \in 1..Len(digits) : digits[i] \in Digits

\* the step issues a command that succeeds
CommandAnswered == Len(cmds') = Len(cmds) + 1 /\ cmds'[Len(cmds')].ok

\* C24: when the value query of either action succeeds with output that is not a
\* decimal integer, the step ends the call with an error, so that no write and no
\* restart follows in that call.
C24_NonIntegerIsError ==
    [][/\ (/\ mpc = "v4get"
           /\ CommandAnswered
           /\ ~IsDecimalInteger(PowershellOutput(HostAdvPropertyValue(mV4Name))))
          => (mpc' = "select" /\ mResult' = "err" /\ ~mRead')
       /\ (/\ mpc = "v3get"
           /\ CommandAnswered
           /\ ~IsDecimalInteger(PowershellOutput(HostItemProperty(mPath))))
          => (mpc' = "select" /\ mResult' = "err" /\ ~mRead')]_vars

\* the value query of the direct-property action answered "x" and the call returned
\* an error
C24_Witness ==
    /\ tagValue = <<"x">>
    /\ ~envChanged
    /\ Len(cmds) = 3
    /\ cmds[3].op = "Get-NetAdapterAdvancedProperty.RegistryValue"
    /\ cmds[3].ok
    /\ mResult = "err"
    /\ mpc = "select"

\* C25: every call of SetMellanoxPriorityVLANTag issues the classifier query, and when
\* the query succeeds the action that runs is selected by the host's answer to that
\* query alone: the direct-property action when the answer is non-empty, the legacy
\* action when it is empty, whatever earlier cycles saw.
C25_ClassifiedEveryCycle ==
    [][/\ (mpc = "classify" /\ mpc' # mpc) =>
              /\ Len(cmds') = Len(cmds) + 1
              /\ cmds'[Len(cmds')].op = "Get-NetAdapterAdvancedProperty.Name"
       /\ (mpc = "classify" /\ CommandAnswered) =>
              mpc' = IF PowershellOutput(HostAdvPropertyName(mName)) # NoText
                     THEN "v4get"
                     ELSE "v3device"
       /\ (mpc # "classify" /\ mpc' \in {"v4get", "v3device"}) => mpc' = mpc]_vars

\* a cycle handled by the direct-property action after an earlier cycle in which the
\* legacy action wrote the value
C25_Witness == restartPending /\ mpc = "v4set" /\ Dispatched /\ cmds[2].ok

\* C27: at most one reconciliation cycle is in flight: a cycle begins only at the
\* select, where the previous cycle has returned and issues no further command;
\* commands are issued only by the cycle in flight, one per step; a tick that arrives
\* during a cycle is kept pending and neither moves the cycle nor starts another; and a
\* cycle holds exactly one adapter lookup, its first command.
C27_OneCycleInFlight ==
    [][/\ (mpc' = "getName" /\ mpc # "getName") => (mpc = "select" /\ cmds' = <<>>)
       /\ cmds' # cmds =>
              \/ mpc = "select" /\ mpc' = "getName"
              \/ mpc \in CyclePcs /\ Len(cmds') = Len(cmds) + 1 /\ SubSeq(cmds', 1, Len(cmds)) = cmds
       /\ (mpc \in CyclePcs /\ ~tickPending /\ tickPending') =>
              (mpc' = mpc /\ cmds' = cmds)
       /\ Issued("Get-NetAdapter")' \subseteq {1}]_vars

\* a tick arrived while a cycle was issuing commands, and waits
C27_Witness == tickPending /\ mpc = "v3write" /\ Len(cmds) = 5

\* C26: once the context is cancelled the loop eventually returns, also when ticks
\* keep arriving and a cycle is in flight.
C26_CancelledReturns == cancelled ~> (mpc = "returned")

\* the loop has returned after the cancellation, with a tick left pending and a cycle
\* behind it
C26_Witness == mpc = "returned" /\ cancelled /\ tickPending /\ Len(cmds) >= 1

====
